---- MODULE Spec2Model ----
(***************************************************************************)
(* A model of actual-mcp-server:                                           *)
(*   - the backend-connection guard, connectToActual                       *)
(*     (src/src/actualConnection.ts);                                      *)
(*   - the session router of the streamable HTTP server, startHttpServer   *)
(*     (src/unnamed/part_000);                                             *)
(*   - the tool definitions (src/src/tools/accounts_list.ts,               *)
(*     src/unnamed/part_001) and their invocation.                         *)
(* Node runs one turn of JavaScript at a time, so every action below is    *)
(* the code that runs between two suspension points (await).               *)
(***************************************************************************)
EXTENDS Integers, FiniteSets, Sequences, TLC

\* ------------------------------------------------------------------ bounds
NumCallers == 3      \* calls of connectToActual in one run

Callers == 1..NumCallers

\* ------------------------------------------------------ connection guard
None == "none"

\* The errors a handshake can raise: a missing or malformed environment
\* (lines 28-31), a rejected api.init (37), a rejected api.downloadBudget (43).
ErrEnv      == "env_not_set"
ErrInit     == "init_rejected"
ErrDownload == "download_rejected"

VARIABLES
  envOK,                \* ACTUAL_* are set and SERVER_URL parses (lines 23-31)
  initialized,          \* line 9
  initializing,         \* line 10
  initializationError,  \* line 11
  cpc,                  \* where each call of connectToActual stands
  thrown,               \* the error a call threw (None if none)
  apiInitCalls,         \* how often api.init was invoked
  downloadCalls,        \* how often api.downloadBudget was invoked
  handshakes,           \* how often the try block (line 22) was entered
  finished,             \* how often the finally block (line 52) was run
  lateCalls,            \* calls that started after a handshake had finished
  readyCalls,           \* calls that started when initialized was true
  firstError,           \* the error captured by the first failed handshake
  initCallsAtFail,      \* apiInitCalls when the first handshake failed
  afterFail             \* calls that completed once a handshake had failed

connVars == << envOK, initialized, initializing, initializationError, cpc,
               thrown, apiInitCalls, downloadCalls, handshakes, finished,
               lateCalls, readyCalls, firstError, initCallsAtFail, afterFail >>

\* The state of the session router (described with it below).
VARIABLES
  transports,   \* the Map of line 43: identifier -> transport (NoTransport: absent)
  tSession,     \* transport.sessionId of the transport request t constructed
                \* (EmptyString: none constructed, or its session not set)
  tClosed,      \* the transports whose close() has run
  issued,       \* the identifiers sessionIdGenerator has returned
  removed,      \* per identifier, how often its Map entry was removed
  terminated,   \* the identifiers whose DELETE handler ran to its end
  req,          \* per request: pc, method, hdr, body, resp, fwd
  exited,       \* process.exit(0) was called
  closeState    \* per transport, the state of the close SIGINT attempted

httpVars == << transports, tSession, tClosed, issued, removed,
               terminated, req, exited, closeState >>

\* The state of the tool invocations (described with them below).
VARIABLES
  inv,            \* the last tool invocation: its number, tool, args, outcome
  backendCalls    \* per backend operation, how often it was called

toolVars == << inv, backendCalls >>

\* The state of the tool calls the transports deliver (described with the
\* CallTool handler below).
VARIABLES
  tcall           \* per request, the tool call its POST carried: the message,
                  \* the calls of mcp.executeTool, its outcome, the handler's

callVars == << tcall >>

InitConn ==
  /\ envOK \in BOOLEAN
  /\ initialized = FALSE
  /\ initializing = FALSE
  /\ initializationError = None
  /\ cpc = [c \in Callers |-> "idle"]
  /\ thrown = [c \in Callers |-> None]
  /\ apiInitCalls = 0
  /\ downloadCalls = 0
  /\ handshakes = 0
  /\ finished = 0
  /\ lateCalls = {}
  /\ readyCalls = {}
  /\ firstError = None
  /\ initCallsAtFail = 0
  /\ afterFail = {}

\* line 14: if (initialized) return;
\* (IsReady_Never: the check left out.)
IsReady_Never == FALSE
IsReady == initialized

\* line 15: if (initializing) { ... }
\* (IsConnecting_Never: the check left out.)
IsConnecting_Never == FALSE
IsConnecting == initializing

\* line 17: if (initializationError) throw initializationError; return;
WaiterOutcome(err) == IF err # None THEN "threw" ELSE "returned"

\* The bookkeeping of a call that completes (returns or throws).
Complete(c, how, err) ==
  /\ cpc' = [cpc EXCEPT ![c] = how]
  /\ thrown' = [thrown EXCEPT ![c] = err]
  /\ afterFail' = IF firstError' # None THEN afterFail \cup {c} ELSE afterFail

\* lines 47-53: catch captures the error and rethrows it, finally clears
\* initializing.
\* (Fail_NoFinally: the finally block of line 52 left out.)
Fail_NoFinally(c, err) ==
  /\ initializationError' = err
  /\ initializing' = TRUE
  /\ finished' = finished + 1
  /\ firstError' = IF firstError = None THEN err ELSE firstError
  /\ initCallsAtFail' = IF firstError = None THEN apiInitCalls' ELSE initCallsAtFail
  /\ Complete(c, "threw", err)
  /\ UNCHANGED << initialized >>
Fail(c, err) ==
  /\ initializationError' = err
  /\ initializing' = FALSE
  /\ finished' = finished + 1
  /\ firstError' = IF firstError = None THEN err ELSE firstError
  /\ initCallsAtFail' = IF firstError = None THEN apiInitCalls' ELSE initCallsAtFail
  /\ Complete(c, "threw", err)
  /\ UNCHANGED << initialized >>

\* lines 13-37: a call runs, in one turn, up to its first await.
Call(c) ==
  /\ UNCHANGED << httpVars, toolVars, callVars >>
  /\ cpc[c] = "idle"
  /\ lateCalls' = IF finished > 0 THEN lateCalls \cup {c} ELSE lateCalls
  /\ readyCalls' = IF initialized THEN readyCalls \cup {c} ELSE readyCalls
  /\ IF IsReady
       THEN /\ UNCHANGED firstError
            /\ Complete(c, "returned", None)
            /\ UNCHANGED << initialized, initializing, initializationError,
                            apiInitCalls, handshakes, finished, initCallsAtFail >>
       ELSE IF IsConnecting
         THEN /\ cpc' = [cpc EXCEPT ![c] = "polling"]
              /\ UNCHANGED << initialized, initializing, initializationError,
                              thrown, apiInitCalls, handshakes, finished,
                              firstError, initCallsAtFail, afterFail >>
         ELSE /\ handshakes' = handshakes + 1
              /\ IF envOK
                   THEN /\ initializing' = TRUE
                        /\ apiInitCalls' = apiInitCalls + 1
                        /\ cpc' = [cpc EXCEPT ![c] = "await_init"]
                        /\ UNCHANGED << initialized, initializationError, thrown,
                                        finished, firstError, initCallsAtFail,
                                        afterFail >>
                   ELSE /\ UNCHANGED apiInitCalls
                        /\ Fail(c, ErrEnv)
  /\ UNCHANGED << envOK, downloadCalls >>

\* line 16: the 100 ms timer of a waiting call fires and initializing is
\* false (while it is true the call only re-arms its timer); lines 17-18.
PollWake(c) ==
  /\ UNCHANGED << httpVars, toolVars, callVars >>
  /\ cpc[c] = "polling"
  /\ ~initializing
  /\ UNCHANGED firstError
  /\ Complete(c, WaiterOutcome(initializationError),
              IF WaiterOutcome(initializationError) = "threw"
                THEN initializationError ELSE None)
  /\ UNCHANGED << envOK, initialized, initializing, initializationError,
                  apiInitCalls, downloadCalls, handshakes, finished, lateCalls,
                  readyCalls, initCallsAtFail >>

\* line 37 resolves; line 43 invokes api.downloadBudget.
\* (InitResolves_ReadyEarly: line 45 moved before line 43.)
InitResolves_ReadyEarly(c) ==
  /\ UNCHANGED << httpVars, toolVars, callVars >>
  /\ cpc[c] = "await_init"
  /\ downloadCalls' = downloadCalls + 1
  /\ cpc' = [cpc EXCEPT ![c] = "await_download"]
  /\ initialized' = TRUE
  /\ UNCHANGED << envOK, initializing, initializationError, thrown,
                  apiInitCalls, handshakes, finished, lateCalls, readyCalls,
                  firstError, initCallsAtFail, afterFail >>
InitResolves(c) ==
  /\ UNCHANGED << httpVars, toolVars, callVars >>
  /\ cpc[c] = "await_init"
  /\ downloadCalls' = downloadCalls + 1
  /\ cpc' = [cpc EXCEPT ![c] = "await_download"]
  /\ UNCHANGED << envOK, initialized, initializing, initializationError, thrown,
                  apiInitCalls, handshakes, finished, lateCalls, readyCalls,
                  firstError, initCallsAtFail, afterFail >>

\* line 37 rejects: lines 47-53.
InitRejects(c) ==
  /\ UNCHANGED << httpVars, toolVars, callVars >>
  /\ cpc[c] = "await_init"
  /\ UNCHANGED apiInitCalls
  /\ Fail(c, ErrInit)
  /\ UNCHANGED << envOK, downloadCalls, handshakes, lateCalls, readyCalls >>

\* line 43 resolves: lines 45-46, then finally (52).
DownloadResolves(c) ==
  /\ UNCHANGED << httpVars, toolVars, callVars >>
  /\ cpc[c] = "await_download"
  /\ initialized' = TRUE
  /\ initializing' = FALSE
  /\ finished' = finished + 1
  /\ UNCHANGED firstError
  /\ Complete(c, "returned", None)
  /\ UNCHANGED << envOK, initializationError, apiInitCalls, downloadCalls,
                  handshakes, lateCalls, readyCalls, initCallsAtFail >>

\* line 43 rejects: lines 47-53.
DownloadRejects(c) ==
  /\ UNCHANGED << httpVars, toolVars, callVars >>
  /\ cpc[c] = "await_download"
  /\ UNCHANGED apiInitCalls
  /\ Fail(c, ErrDownload)
  /\ UNCHANGED << envOK, downloadCalls, handshakes, lateCalls, readyCalls >>

\* ---------------------------------------------------------- session router
MaxReqs     == 3     \* HTTP requests on the MCP path in one run
MaxSessions == 2     \* session identifiers crypto.randomUUID can produce

Reqs == 1..MaxReqs
SessionIds == 1..MaxSessions

\* req.headers['mcp-session-id'] (line 109): undefined when the header is
\* absent, the empty string when it is sent empty, else an identifier.
Undefined   == -1
EmptyString == 0
Headers == {Undefined, EmptyString} \cup SessionIds

\* !sessionId (lines 114, 172, 196): undefined and "" are both falsy.
Falsy(h) == h \in {Undefined, EmptyString}

\* No transport: transports.get of a key that is not in the Map.
NoTransport == 0

\* req.body as express.json() leaves it: no JSON body, an initialize request,
\* or another JSON-RPC request; a JSON-RPC request carries an id.
NullId == "null"
NoBody    == [kind |-> "none", id |-> NullId]
InitBody  == [kind |-> "initialize", id |-> "id-a"]
OtherBody == [kind |-> "request", id |-> "id-b"]
Bodies == {NoBody, InitBody, OtherBody}

Methods == {"POST", "GET", "DELETE"}

\* What res carries once it is written.
NoResp == [status |-> 0, code |-> 0, message |-> "", id |-> NullId]

RouterErrorCode == -32000
NoValidSessionMessage == "No valid session ID"

\* lines 140, 173, 197: the 400 answer of the router.
\* POST echoes req?.body?.id ?? null; GET and DELETE answer id: null.
NoValidSession(method, body) ==
  [status |-> 400, code |-> RouterErrorCode, message |-> NoValidSessionMessage,
   id |-> IF method = "POST" THEN body.id ELSE NullId]

\* line 155: res.status(err?.status || 500).json({ error: ... })
ServerError == [status |-> 500, code |-> 0, message |-> "error", id |-> NullId]

\* The answer a transport writes itself (StreamableHTTPServerTransport).
TransportResp(status, body) ==
  [status |-> status, code |-> 0, message |-> "transport", id |-> body.id]

\* The outcomes of transport.close() as SIGINT's callback sees them at
\* process.exit: the promise has resolved, is still pending, or has rejected.
CloseOutcomes == {"closed", "pending", "rejected"}


NewReq == [pc |-> "new", method |-> "none", hdr |-> Undefined, body |-> NoBody,
           resp |-> NoResp, fwd |-> NoTransport]

InitHttp ==
  /\ transports = [s \in SessionIds |-> NoTransport]
  /\ tSession = [t \in Reqs |-> EmptyString]
  /\ tClosed = {}
  /\ issued = {}
  /\ removed = [s \in SessionIds |-> 0]
  /\ terminated = {}
  /\ req = [r \in Reqs |-> NewReq]
  /\ exited = FALSE
  /\ closeState = [t \in Reqs |-> "none"]

\* transports.has(sessionId)
Has(h) == h \in SessionIds /\ transports[h] # NoTransport

\* line 114: if (!sessionId), the initialize branch of POST.
\* (IsInitialize_OrUnknown: an unknown identifier starts a session too.)
IsInitialize_OrUnknown(h) == Falsy(h) \/ ~Has(h)
IsInitialize(h) == Falsy(h)

\* lines 138, 172, 196: the request cannot be routed.
NoSession(h) == Falsy(h) \/ ~Has(h)

\* line 116: the values crypto.randomUUID() can return (never one it returned).
\* (SessionIdGenerator_Any: a generator that can repeat itself.)
SessionIdGenerator_Any == SessionIds
SessionIdGenerator == SessionIds \ issued

\* transports.delete(sid): the Map without the entry, and the removal counted.
\* (MapDelete_All: transports.clear() in its place.)
MapDelete_All(m, sid) == [s \in SessionIds |-> NoTransport]
MapDelete(m, sid) == [m EXCEPT ![sid] = NoTransport]
CountRemoval(sid) ==
  IF Has(sid) THEN [removed EXCEPT ![sid] = @ + 1] ELSE removed

\* lines 125-128: server.onclose of the transport t.
OnCloseDeletes(t) == tSession[t] # EmptyString /\ Has(tSession[t])

\* Requests are numbered in the order of their arrival.
Arrives(r) ==
  /\ ~exited
  /\ req[r].pc = "new"
  /\ \A q \in Reqs : q < r => req[q].pc # "new"

\* A completed request of which only its completion is remembered.
DoneReq == [pc |-> "done", method |-> "none", hdr |-> Undefined, body |-> NoBody,
            resp |-> NoResp, fwd |-> NoTransport]

\* The exchange of request r becomes rec.  req keeps the whole exchange of the
\* request that completed last; of the ones before it, only that they are done.
Update(r, rec) ==
  req' = [q \in Reqs |->
            IF q = r THEN rec
            ELSE IF req[q].pc = "done" THEN DoneReq ELSE req[q]]

\* The handler answers the request itself and returns.
Answer(r, method, h, b, resp) ==
  Update(r, [pc |-> "done", method |-> method, hdr |-> h, body |-> b,
             resp |-> resp, fwd |-> NoTransport])

\* The handler hands the request to transport t and awaits it.
Forward(r, method, h, b, pc, t) ==
  Update(r, [pc |-> pc, method |-> method, hdr |-> h, body |-> b,
             resp |-> NoResp, fwd |-> t])

\* The awaited call of request r settles: its answer, and where r continues.
Settle(r, pc, resp) ==
  Update(r, [req[r] EXCEPT !.pc = pc, !.resp = resp])

\* lines 98-145: app.post up to its first await.
PostStart(r, h, b) ==
  /\ UNCHANGED << connVars, toolVars, callVars >>
  /\ Arrives(r)
  /\ IF IsInitialize(h)
       THEN \* lines 115-130: a new transport, connected to a new server
            Forward(r, "POST", h, b, "init_handle", r)
       ELSE IF ~Has(h)
         THEN Answer(r, "POST", h, b, NoValidSession("POST", b))
         ELSE Forward(r, "POST", h, b, "post_handle", transports[h])
  /\ UNCHANGED << transports, tSession, tClosed, issued, removed, terminated,
                  exited, closeState >>

\* line 119: onsessioninitialized registers the transport.
\* (Register_Nothing: the callback does not register.)
Register_Nothing(m, sid, t) == m
Register(m, sid, t) == [m EXCEPT ![sid] = t]

\* lines 130-134: server.connect and transport.handleRequest of a new
\* transport.  The transport initializes its session, and calls
\* onsessioninitialized (118-121), only for an initialize request; any other
\* message is answered 400 by the transport and nothing is registered.
InitHandle(r) ==
  /\ UNCHANGED << connVars, toolVars, callVars >>
  /\ ~exited
  /\ req[r].pc = "init_handle"
  /\ IF req[r].body.kind = "initialize"
       THEN \E sid \in SessionIdGenerator :
              /\ issued' = issued \cup {sid}
              /\ tSession' = [tSession EXCEPT ![r] = sid]
              /\ transports' = Register(transports, sid, r)
              /\ Settle(r, "done", TransportResp(200, req[r].body))
       ELSE /\ Settle(r, "done", TransportResp(400, req[r].body))
            /\ UNCHANGED << issued, tSession, transports >>
  /\ UNCHANGED << tClosed, removed, terminated, exited, closeState >>

\* lines 130-134 throw (connect or handleRequest fails): lines 148-157.
InitThrows(r) ==
  /\ UNCHANGED << connVars, toolVars, callVars >>
  /\ ~exited
  /\ req[r].pc = "init_handle"
  /\ Settle(r, "done", ServerError)
  /\ UNCHANGED << transports, tSession, tClosed, issued, removed,
                  terminated, exited, closeState >>

\* line 145: the transport of the session handles the POST and answers it
\* (an initialize sent to an initialized transport is answered 400).
\* (PostHandle_Reinit: an initialize with an active identifier starts the
\* session anew, on the transport the request constructs.)
PostHandle_Reinit(r) ==
  /\ UNCHANGED << connVars, toolVars, callVars >>
  /\ ~exited
  /\ req[r].pc = "post_handle"
  /\ Settle(r, "done", TransportResp(200, req[r].body))
  /\ IF req[r].body.kind = "initialize"
       THEN /\ transports' = Register(transports, req[r].hdr, r)
            /\ tSession' = [tSession EXCEPT ![r] = req[r].hdr]
       ELSE UNCHANGED << transports, tSession >>
  /\ UNCHANGED << tClosed, issued, removed, terminated, exited, closeState >>
PostHandle(r) ==
  /\ UNCHANGED << connVars, toolVars, callVars >>
  /\ ~exited
  /\ req[r].pc = "post_handle"
  /\ Settle(r, "done",
            TransportResp(IF req[r].body.kind = "request" THEN 200 ELSE 400,
                          req[r].body))
  /\ UNCHANGED << transports, tSession, tClosed, issued, removed,
                  terminated, exited, closeState >>

\* line 145 throws: lines 148-157.
PostThrows(r) ==
  /\ UNCHANGED << connVars, toolVars, callVars >>
  /\ ~exited
  /\ req[r].pc = "post_handle"
  /\ Settle(r, "done", ServerError)
  /\ UNCHANGED << transports, tSession, tClosed, issued, removed,
                  terminated, exited, closeState >>

\* lines 161-177: app.get up to its await.  Line 177 hands the transport no
\* body: the exchange keeps the body only when the router answers itself.
GetStart(r, h, b) ==
  /\ UNCHANGED << connVars, toolVars, callVars >>
  /\ Arrives(r)
  /\ IF NoSession(h)
       THEN Answer(r, "GET", h, b, NoValidSession("GET", b))
       ELSE Forward(r, "GET", h, NoBody, "get_handle", transports[h])
  /\ UNCHANGED << transports, tSession, tClosed, issued, removed,
                  terminated, exited, closeState >>

\* line 177: the transport opens the stream; when it throws, lines 188-190
\* only log.
GetHandle(r, ok) ==
  /\ UNCHANGED << connVars, toolVars, callVars >>
  /\ ~exited
  /\ req[r].pc = "get_handle"
  /\ Settle(r, "done", IF ok THEN TransportResp(200, NoBody) ELSE NoResp)
  /\ UNCHANGED << transports, tSession, tClosed, issued, removed,
                  terminated, exited, closeState >>

\* lines 194-201: app.delete up to its await.  The transport does not read
\* the body of a DELETE: the exchange keeps the body only when the router
\* answers itself.
DeleteStart(r, h, b) ==
  /\ UNCHANGED << connVars, toolVars, callVars >>
  /\ Arrives(r)
  /\ IF NoSession(h)
       THEN Answer(r, "DELETE", h, b, NoValidSession("DELETE", b))
       ELSE Forward(r, "DELETE", h, NoBody, "delete_handle", transports[h])
  /\ UNCHANGED << transports, tSession, tClosed, issued, removed,
                  terminated, exited, closeState >>

\* line 201: the transport handles the DELETE: it closes itself, which runs
\* server.onclose (lines 125-128), and answers 200.
DeleteCloses(r) ==
  /\ UNCHANGED << connVars, toolVars, callVars >>
  /\ ~exited
  /\ req[r].pc = "delete_handle"
  /\ LET t == req[r].fwd IN
       /\ tClosed' = tClosed \cup {t}
       /\ IF OnCloseDeletes(t)
            THEN /\ transports' = MapDelete(transports, tSession[t])
                 /\ removed' = CountRemoval(tSession[t])
            ELSE UNCHANGED << transports, removed >>
  /\ Settle(r, "delete_finish", TransportResp(200, NoBody))
  /\ UNCHANGED << tSession, issued, terminated, exited, closeState >>

\* line 201: the transport refuses the DELETE (answers 400) without closing.
DeleteRefused(r) ==
  /\ UNCHANGED << connVars, toolVars, callVars >>
  /\ ~exited
  /\ req[r].pc = "delete_handle"
  /\ Settle(r, "delete_finish", TransportResp(400, NoBody))
  /\ UNCHANGED << transports, tSession, tClosed, issued, removed,
                  terminated, exited, closeState >>

\* line 201 throws: app.delete has no catch, lines 202-203 do not run.
DeleteThrows(r) ==
  /\ UNCHANGED << connVars, toolVars, callVars >>
  /\ ~exited
  /\ req[r].pc = "delete_handle"
  /\ Settle(r, "done", req[r].resp)
  /\ UNCHANGED << transports, tSession, tClosed, issued, removed,
                  terminated, exited, closeState >>

\* line 202: transports.delete(sessionId)
\* (AfterDelete_Keep: the entry is left in the Map.)
AfterDelete_Keep(m, sid) == m
AfterDelete(m, sid) == MapDelete(m, sid)

\* lines 202-203.
DeleteFinish(r) ==
  /\ UNCHANGED << connVars, toolVars, callVars >>
  /\ ~exited
  /\ req[r].pc = "delete_finish"
  /\ transports' = AfterDelete(transports, req[r].hdr)
  /\ removed' = IF transports'[req[r].hdr] = NoTransport
                  THEN CountRemoval(req[r].hdr) ELSE removed
  /\ terminated' = terminated \cup {req[r].hdr}
  /\ Settle(r, "done", req[r].resp)
  /\ UNCHANGED << tSession, tClosed, issued, exited, closeState >>

\* The transports in the Map.
Registered == { transports[s] : s \in { x \in SessionIds : Has(x) } }

\* A request the process was still handling when it exited.
AbortedReq == [pc |-> "aborted", method |-> "none", hdr |-> Undefined,
               body |-> NoBody, resp |-> NoResp, fwd |-> NoTransport]

\* lines 224-235: the SIGINT handler.  forEach calls the async callback for
\* every transport of the Map: each callback invokes transport.close() and
\* suspends at its await; forEach does not wait for the callbacks, and
\* process.exit(0) follows in the same turn.  A close that has run by then
\* has run server.onclose (125-128); the catch of line 230 has not run.
\* The exit drops every request that is in flight.
Sigint(outcome) ==
  /\ UNCHANGED << connVars, toolVars, callVars >>
  /\ ~exited
  /\ exited' = TRUE
  /\ closeState' = [t \in Reqs |->
                      IF t \in Registered THEN outcome[t] ELSE closeState[t]]
  /\ LET closedNow == { t \in Registered : outcome[t] = "closed" } IN
       /\ tClosed' = tClosed \cup closedNow
       /\ transports' = [s \in SessionIds |->
                           IF transports[s] \in closedNow
                             THEN NoTransport ELSE transports[s]]
       /\ removed' = [s \in SessionIds |->
                        IF transports[s] \in closedNow
                          THEN removed[s] + 1 ELSE removed[s]]
  /\ req' = [r \in Reqs |->
               IF req[r].pc = "new" THEN req[r]
               ELSE IF req[r].pc = "done" THEN DoneReq ELSE AbortedReq]
  /\ UNCHANGED << tSession, issued, terminated >>

\* SIGINT arrives; every close it attempts has one of the outcomes.
Shutdown == \E outcome \in [Registered -> CloseOutcomes] : Sigint(outcome)

NextHttp ==
  \/ \E r \in Reqs, h \in Headers, b \in Bodies : PostStart(r, h, b)
  \/ \E r \in Reqs, h \in Headers, b \in Bodies \ {InitBody} :
       \/ GetStart(r, h, b)
       \/ DeleteStart(r, h, b)
  \/ \E r \in Reqs :
       \/ InitHandle(r)
       \/ InitThrows(r)
       \/ PostHandle(r)
       \/ PostThrows(r)
       \/ \E ok \in BOOLEAN : GetHandle(r, ok)
       \/ DeleteCloses(r)
       \/ DeleteRefused(r)
       \/ DeleteThrows(r)
       \/ DeleteFinish(r)
  \/ Shutdown

\* ------------------------------------------------------------------- tools
MaxInvocations == 3   \* tool invocations in one run

\* The three tool definitions: accounts_list.ts lines 1-21 (calls getAccounts
\* of the API), accounts_list.ts lines 23-47 (calls adapter.getAccounts), and
\* part_001 ('actual.transactions.create').
AccountsListApi     == "actual.accounts.list (api)"
AccountsListAdapter == "actual.accounts.list (adapter)"
TransactionsCreate  == "actual.transactions.create"
Tools == {AccountsListApi, AccountsListAdapter, TransactionsCreate}

\* The delegated backend operation of each tool.
BackendOp(tool) ==
  CASE tool = AccountsListApi     -> "getAccounts"
    [] tool = AccountsListAdapter -> "adapter.getAccounts"
    [] tool = TransactionsCreate  -> "addTransactions"
BackendOps == { BackendOp(t) : t \in Tools }

\* The arguments a caller can supply, by their JavaScript value.
ArgValues == {"undefined", "null", "0", "'text'", "[]", "{}", "{extra: 1}"}
\* The values JavaScript treats as false in args || {}.
FalsyArgs == {"undefined", "null", "0"}
\* The values zod's object parser accepts (unknown keys are stripped).
ObjectArgs == {"{}", "{extra: 1}"}

\* inputSchema: z.object({}) (accounts_list.ts lines 6, 28), z.any()
\* (part_001 line 6).
InputSchema(tool) ==
  IF tool = TransactionsCreate THEN "z.any()" ELSE "z.object({})"

\* schema.parse(args) does not throw.
ZodAccepts(schema, args) == schema = "z.any()" \/ args \in ObjectArgs

\* tool.call(args): whether it throws before its backend operation, i.e.
\* whether the backend operation is not called.
\*   accounts_list.ts 14-18 and part_001 14-18 call the backend at once;
\*   accounts_list.ts 37-44 first runs InputSchema.parse(args || {}).
CallThrowsFirst(tool, args) ==
  /\ tool = AccountsListAdapter
  /\ ~ZodAccepts(InputSchema(tool), IF args \in FalsyArgs THEN "{}" ELSE args)

InitTool ==
  /\ inv = [n |-> 0, tool |-> AccountsListApi, args |-> "{}", outcome |-> "none"]
  /\ backendCalls = [op \in BackendOps |-> 0]

\* tool.call(args), with the backend operation resolving (ok) or rejecting.
ToolCall(tool, args, ok) ==
  IF CallThrowsFirst(tool, args)
    THEN /\ inv' = [n |-> inv.n + 1, tool |-> tool, args |-> args,
                    outcome |-> "threw"]
         /\ UNCHANGED backendCalls
    ELSE /\ inv' = [n |-> inv.n + 1, tool |-> tool, args |-> args,
                    outcome |-> IF ok THEN "returned" ELSE "threw"]
         /\ backendCalls' = [backendCalls EXCEPT ![BackendOp(tool)] = @ + 1]

\* Section 4.3 of the specification: the registry validates the supplied
\* arguments against the tool's schema, then calls the handler.
\* (InvokeTool_Unvalidated: the handler is called without the validation.)
InvokeTool_Unvalidated(tool, args, ok) ==
  /\ UNCHANGED << connVars, httpVars, callVars >>
  /\ inv.n < MaxInvocations
  /\ ToolCall(tool, args, ok)
InvokeTool(tool, args, ok) ==
  /\ UNCHANGED << connVars, httpVars, callVars >>
  /\ inv.n < MaxInvocations
  /\ IF ZodAccepts(InputSchema(tool), args)
       THEN ToolCall(tool, args, ok)
       ELSE /\ inv' = [n |-> inv.n + 1, tool |-> tool, args |-> args,
                       outcome |-> "rejected"]
            /\ UNCHANGED backendCalls

NextTool ==
  \E tool \in Tools, args \in ArgValues, ok \in BOOLEAN : InvokeTool(tool, args, ok)

\* ------------------------------------------------------ CallTool handler
\* request.params of a tools/call message (line 83): the tool names of the
\* definitions (accounts_list.ts lines 11, 34; part_001 line 11) and
\* arguments.
ToolNames == {"actual.accounts.list", "actual.transactions.create"}
CallArgs == ObjectArgs

\* What mcp.executeTool can resolve with, and reject with.
Results == {"result-a", "result-b"}
Errors == {"error-a", "error-b"}

NoOutcome == [kind |-> "none", value |-> None]
Outcome(kind, value) == [kind |-> kind, value |-> value]

NoCall == [pc |-> "none", via |-> NoTransport, name |-> None, args |-> None,
           execN |-> 0, execName |-> None, execArgs |-> None,
           execOut |-> NoOutcome, out |-> NoOutcome]

InitCall == tcall = [r \in Reqs |-> NoCall]

\* The tool call of request r becomes call.  tcall keeps the whole record of
\* the call that completed last; the ones completed before it are forgotten.
UpdateCall(r, call) ==
  tcall' = [q \in Reqs |->
              IF q = r THEN call
              ELSE IF tcall[q].pc \in {"returned", "threw"} /\ call.pc # "executing"
                THEN NoCall ELSE tcall[q]]

\* line 86: mcp.executeTool(name, args) is invoked.
ExecuteTool(call, name, args) ==
  [call EXCEPT !.execN = @ + 1, !.execName = name, !.execArgs = args]

\* line 87: return result;
Return(result) == result

\* line 90: throw error;
\* (Rethrow_Wrapped: another error is thrown in its place.)
Rethrow_Wrapped(error) == "Error: tool execution failed"
Rethrow(error) == error

\* lines 88-91: the catch logs and rethrows; it does not touch the Map.
\* (OnToolError_Drop: the catch removes the session of the failed call.)
OnToolError_Drop(m, sid) == MapDelete(m, sid)
OnToolError(m, sid) == m

\* lines 145, 82-86: the transport of the session reads a tools/call message
\* from the POST and delivers it to the CallTool handler, which runs up to its
\* await: it invokes mcp.executeTool with the name and arguments of the message.
ToolCallDelivered(r, name, args) ==
  /\ UNCHANGED << connVars, toolVars >>
  /\ ~exited
  /\ req[r].pc = "post_handle"
  /\ req[r].body.kind = "request"
  /\ UpdateCall(r, ExecuteTool([NoCall EXCEPT !.pc = "executing",
                                             !.via = req[r].fwd,
                                             !.name = name, !.args = args],
                              name, args))
  /\ Settle(r, "tool_exec", NoResp)
  /\ UNCHANGED << transports, tSession, tClosed, issued, removed,
                  terminated, exited, closeState >>

\* lines 86-87: mcp.executeTool resolves, the handler returns the result and
\* the transport answers the POST with it.
ExecuteResolves(r, result) ==
  /\ UNCHANGED << connVars, toolVars >>
  /\ ~exited
  /\ req[r].pc = "tool_exec"
  /\ UpdateCall(r, [tcall[r] EXCEPT !.pc = "returned",
                                     !.execOut = Outcome("result", result),
                                     !.out = Outcome("result", Return(result))])
  /\ Settle(r, "done", TransportResp(200, req[r].body))
  /\ UNCHANGED << transports, tSession, tClosed, issued, removed,
                  terminated, exited, closeState >>

\* lines 86, 88-91: mcp.executeTool rejects, the handler logs and rethrows,
\* and the transport answers the POST with the JSON-RPC error.
ExecuteRejects(r, error) ==
  /\ UNCHANGED << connVars, toolVars >>
  /\ ~exited
  /\ req[r].pc = "tool_exec"
  /\ UpdateCall(r, [tcall[r] EXCEPT !.pc = "threw",
                                     !.execOut = Outcome("error", error),
                                     !.out = Outcome("error", Rethrow(error))])
  /\ transports' = OnToolError(transports, req[r].hdr)
  /\ Settle(r, "done", TransportResp(200, req[r].body))
  /\ UNCHANGED << tSession, tClosed, issued, removed,
                  terminated, exited, closeState >>

\* The POST requests of the sessions, and the tool calls they carry.
NextCall ==
  \/ \E r \in Reqs, h \in Headers, b \in Bodies : PostStart(r, h, b)
  \/ \E r \in Reqs :
       \/ InitHandle(r)
       \/ InitThrows(r)
       \/ PostHandle(r)
       \/ PostThrows(r)
       \/ \E name \in ToolNames, args \in CallArgs :
            ToolCallDelivered(r, name, args)
       \/ \E result \in Results : ExecuteResolves(r, result)
       \/ \E error \in Errors : ExecuteRejects(r, error)

vars == << connVars, httpVars, toolVars, callVars >>

Init == InitConn /\ InitHttp /\ InitTool /\ InitCall

NextConn ==
  \E c \in Callers :
    \/ Call(c)
    \/ PollWake(c)
    \/ InitResolves(c)
    \/ InitRejects(c)
    \/ DownloadResolves(c)
    \/ DownloadRejects(c)

\* The guard alone: the calls of connectToActual in every interleaving.
SpecConn == Init /\ [][NextConn]_vars

\* The guard under the scheduling Node provides: the 100 ms timer of a
\* waiting call keeps firing (line 16), and a pending api.init or
\* api.downloadBudget settles, one way or the other.  Nothing obliges a
\* caller to call.
FairConn ==
  \A c \in Callers :
    /\ WF_vars(PollWake(c))
    /\ WF_vars(InitResolves(c) \/ InitRejects(c))
    /\ WF_vars(DownloadResolves(c) \/ DownloadRejects(c))

SpecConnFair == Init /\ [][NextConn]_vars /\ FairConn

\* The router alone: the requests, and SIGINT, in every interleaving.
InitConfigured == Init /\ envOK
SpecHttp == InitConfigured /\ [][NextHttp]_vars

\* The tool invocations alone.
SpecTool == InitConfigured /\ [][NextTool]_vars

\* The tool calls: the POST requests and the CallTool handler, in every
\* interleaving.
SpecCall == InitConfigured /\ [][NextCall]_vars

\* ------------------------------------------------ claims about the guard
Done == { c \in Callers : cpc[c] \in {"returned", "threw"} }
Started == { c \in Callers : cpc[c] # "idle" }

\* C1: when every call made so far started before the first handshake
\* finished (no later call exists), the handshake ran once (api.init once,
\* api.downloadBudget at most once) and all completed calls have the same
\* outcome: all returned, or all threw the same captured error.
C1_OneHandshakeSameOutcome ==
  lateCalls = {} =>
    /\ handshakes <= 1
    /\ apiInitCalls <= 1
    /\ downloadCalls <= apiInitCalls
    /\ (Started # {} => handshakes = 1)
    /\ (Cardinality(Started) >= 2 => apiInitCalls = 1)
    /\ \A c, d \in Done : cpc[c] = cpc[d] /\ thrown[c] = thrown[d]

\* Every call was concurrent with the first handshake, which failed in
\* api.downloadBudget, and every call has thrown.
C1_Witness ==
  /\ lateCalls = {}
  /\ Done = Callers
  /\ \A c \in Callers : cpc[c] = "threw" /\ thrown[c] = ErrDownload

\* C2: once a handshake has failed, api.init is never invoked again and every
\* call that completes from then on throws the error captured by that failure.
C2_FailedIsTerminal ==
  firstError # None =>
    /\ apiInitCalls = initCallsAtFail
    /\ \A c \in afterFail : cpc[c] = "threw" /\ thrown[c] = firstError

\* C3: once initialized is true it stays true, no step invokes api.init or
\* api.downloadBudget or enters the handshake again, and every call that
\* starts returns in that same step.
C3_ReadyIsPermanent ==
  [][ initialized =>
        /\ initialized'
        /\ apiInitCalls' = apiInitCalls
        /\ downloadCalls' = downloadCalls
        /\ handshakes' = handshakes
        /\ \A c \in Callers :
             (cpc[c] = "idle" /\ cpc'[c] # "idle") =>
               (cpc'[c] = "returned" /\ thrown'[c] = None) ]_vars

\* A call that started when the guard was ready has returned.
C3_Witness ==
  /\ initialized
  /\ \E c \in readyCalls : cpc[c] = "returned"

\* The calls whose handshake is in flight (suspended at line 37 or line 43).
InFlight == { c \in Callers : cpc[c] \in {"await_init", "await_download"} }

\* C11: at most one call has a handshake in flight, initializing is true
\* exactly while one is, and a call enters the try block only when no
\* handshake is in flight.
C11_OneHandshakeInFlight ==
  /\ Cardinality(InFlight) <= 1
  /\ initializing <=> InFlight # {}
  /\ handshakes - finished = Cardinality(InFlight)

\* A second handshake is in flight, after a first one failed, while another
\* call is polling.
C11_Witness ==
  /\ handshakes = 2
  /\ finished = 1
  /\ InFlight # {}
  /\ \E c \in Callers : cpc[c] = "polling"

\* C12: a polling call completes only when initializing is false, it returns
\* if and only if initialized is true at that moment, and when it throws it
\* throws the captured error and initialized is false.
C12_WaiterMatchesGuard ==
  [][ \A c \in Callers :
        (cpc[c] = "polling" /\ cpc'[c] # "polling") =>
          /\ ~initializing
          /\ cpc'[c] = "returned" <=> initialized
          /\ cpc'[c] = "threw" =>
               (~initialized /\ thrown'[c] = initializationError) ]_vars

C14_ReadyAfterInitThenDownload ==
  [][ /\ downloadCalls' <= apiInitCalls'
      /\ (~initialized /\ initialized') =>
           \E c \in Callers :
             cpc[c] = "await_download" /\ cpc'[c] = "returned"
      /\ downloadCalls' # downloadCalls =>
           /\ downloadCalls' = downloadCalls + 1
           /\ \E c \in Callers :
                cpc[c] = "await_init" /\ cpc'[c] = "await_download"
      /\ \A c \in Callers :
           /\ (cpc'[c] = "await_download" /\ cpc[c] # "await_download")
                => cpc[c] = "await_init"
           /\ (c \in InFlight /\ cpc'[c] = "threw")
                => initialized' = initialized
           /\ (cpc[c] = "await_init" /\ cpc'[c] = "threw")
                => downloadCalls' = downloadCalls ]_vars

\* A handshake whose api.init was rejected fetched nothing, and a later
\* handshake has made the guard ready.
C14_Witness ==
  /\ initialized
  /\ firstError = ErrInit
  /\ apiInitCalls = 2
  /\ downloadCalls = 1

\* ------------------------------------------------ claims about the router
\* The answer of request record q is the router's 'No valid session ID' error,
\* and no transport was handed the request.
Rejected(q) ==
  /\ q.pc = "done"
  /\ q.resp.status = 400
  /\ q.resp.code = RouterErrorCode
  /\ q.resp.message = NoValidSessionMessage
  /\ q.fwd = NoTransport

\* Request r arrives in this step.
ArrivesNow(r) == req[r].pc = "new" /\ req'[r].pc # "new"

\* The sessions in the registry.
Active == { s \in SessionIds : Has(s) }

\* C4: a POST, GET or DELETE whose session identifier is not in the registry,
\* and a GET or DELETE without identifier, is answered in the step it arrives
\* with the 400 / -32000 'No valid session ID' error, no transport receives
\* it, and the registry and every transport's session are unchanged.
C4_UnknownSessionRejected ==
  [][ \A r \in Reqs :
        ( /\ ArrivesNow(r)
          /\ \/ req'[r].hdr \in SessionIds /\ ~Has(req'[r].hdr)
             \/ req'[r].method \in {"GET", "DELETE"} /\ Falsy(req'[r].hdr) )
        => /\ Rejected(req'[r])
           /\ transports' = transports
           /\ tSession' = tSession
           /\ issued' = issued ]_vars

\* A POST with an identifier that is not registered was rejected while
\* another session is registered.
C4_Witness ==
  \E r \in Reqs :
    /\ Rejected(req[r])
    /\ req[r].method = "POST"
    /\ req[r].hdr \in SessionIds \ Active
    /\ Active # {}

\* C5: once the DELETE handler has run to its end for an identifier, every
\* request that arrives with that identifier is answered with the
\* 'No valid session ID' error.
C5_TerminatedStaysRejected ==
  [][ \A r \in Reqs :
        (ArrivesNow(r) /\ req'[r].hdr \in terminated) => Rejected(req'[r]) ]_vars

\* A GET with the identifier of a session that was registered and then
\* terminated by DELETE was rejected.
C5_Witness ==
  \E r \in Reqs :
    /\ Rejected(req[r])
    /\ req[r].method = "GET"
    /\ req[r].hdr \in terminated
    /\ removed[req[r].hdr] = 1

\* C6: every registered identifier maps to the transport that was bound to it
\* when it was issued, an identifier is bound to one transport only, and the
\* entry of an identifier is removed at most once (a registered identifier
\* has never been removed).
C6_OneTransportPerSession ==
  /\ \A s \in SessionIds :
       /\ Has(s) => tSession[transports[s]] = s
       /\ Has(s) => removed[s] = 0
       /\ removed[s] <= 1
       /\ removed[s] = 1 => s \in issued
  /\ \A t1, t2 \in Reqs :
       (tSession[t1] # EmptyString /\ tSession[t1] = tSession[t2]) => t1 = t2

\* Two DELETE requests for one identifier have both closed its transport and
\* both are about to run transports.delete; the entry was removed once.
C6_Witness ==
  \E r1, r2 \in Reqs :
    /\ r1 # r2
    /\ req[r1].pc = "delete_finish" /\ req[r2].pc = "delete_finish"
    /\ req[r1].hdr = req[r2].hdr
    /\ removed[req[r1].hdr] = 1

\* C7 as stated: every completed POST without session identifier has
\* registered the transport it constructed under an identifier.
C7_EveryPostWithoutIdRegisters ==
  \A r \in Reqs :
    (req[r].pc = "done" /\ req[r].method = "POST" /\ Falsy(req[r].hdr))
      => tSession[r] # EmptyString

\* C7 amended: when a POST without session identifier completes, then, if its
\* transport accepted an initialize request (answer 200), one identifier that
\* was never issued or registered before is bound to the transport the request
\* constructed and registered, the registry gaining exactly that entry; in
\* every other case the registry and the transports' sessions are unchanged.
C7_InitializeRegistersOne ==
  [][ \A r \in Reqs :
        (req[r].pc = "init_handle" /\ req'[r].pc = "done") =>
          IF req'[r].resp.status = 200
            THEN /\ req[r].body.kind = "initialize"
                 /\ \E s \in SessionIds \ (issued \cup Active) :
                      /\ transports' = [transports EXCEPT ![s] = r]
                      /\ tSession' = [tSession EXCEPT ![r] = s]
                      /\ issued' = issued \cup {s}
            ELSE /\ transports' = transports
                 /\ tSession' = tSession
                 /\ issued' = issued ]_vars

\* An initialize POST without identifier has registered its transport as a
\* second session, next to one registered before.
C7_Witness ==
  \E r \in Reqs :
    /\ req[r].pc = "done" /\ req[r].method = "POST" /\ Falsy(req[r].hdr)
    /\ req[r].resp.status = 200
    /\ Has(tSession[r]) /\ transports[tSession[r]] = r
    /\ Cardinality(Active) = 2

\* C8: when the process has exited on SIGINT, every close the handler
\* attempted has completed (none is pending, none has failed unlogged).
C8_ClosesCompleteBeforeExit ==
  exited => \A t \in Reqs : closeState[t] \in {"none", "closed"}

\* C10: every 'No valid session ID' answer carries the id of the request's
\* body (null when the body has none).
C10_ErrorEchoesId ==
  \A r \in Reqs : Rejected(req[r]) => req[r].resp.id = req[r].body.id

\* Request r takes a step of its handler.
Acts(r) == req'[r].pc # req[r].pc

\* C15: an identifier enters the registry only when an initialize POST without
\* identifier completes, as an identifier that was never issued or removed,
\* bound to the transport that request constructed; it leaves the registry
\* only in a step of a DELETE for it or at SIGINT; while it stays, its entry
\* is the same transport; and a POST that arrives with a registered
\* identifier, whatever its body, constructs no transport, is handed to the
\* registered one, and neither its arrival nor its completion changes the
\* registry or any transport's session.
C15_SessionLifecycle ==
  [][ /\ \A s \in SessionIds :
           /\ (~Has(s) /\ Has(s)') =>
                /\ removed[s] = 0
                /\ s \notin issued
                /\ \E r \in Reqs :
                     /\ req[r].pc = "init_handle" /\ req'[r].pc = "done"
                     /\ req[r].method = "POST"
                     /\ Falsy(req[r].hdr)
                     /\ req[r].body.kind = "initialize"
                     /\ transports'[s] = r
           /\ (Has(s) /\ ~Has(s)') =>
                \/ ~exited /\ exited'
                \/ \E r \in Reqs :
                     /\ Acts(r)
                     /\ req[r].method = "DELETE"
                     /\ req[r].hdr = s
           /\ (Has(s) /\ Has(s)') => transports'[s] = transports[s]
      /\ \A r \in Reqs :
           /\ (ArrivesNow(r) /\ req'[r].method = "POST" /\ Has(req'[r].hdr)) =>
                /\ req'[r].pc = "post_handle"
                /\ req'[r].fwd = transports[req'[r].hdr]
                /\ req'[r].fwd # r
                /\ transports' = transports
                /\ tSession' = tSession
           /\ (req[r].pc = "post_handle" /\ req'[r].pc = "done") =>
                /\ transports' = transports
                /\ tSession' = tSession ]_vars

\* An initialize POST that carried a registered identifier was answered 400
\* by the session's transport, and the identifier is still bound to the
\* transport it was issued for.
C15_Witness ==
  \E r \in Reqs :
    /\ req[r].pc = "done" /\ req[r].method = "POST"
    /\ req[r].body.kind = "initialize"
    /\ Has(req[r].hdr)
    /\ req[r].resp.status = 400
    /\ transports[req[r].hdr] # r
    /\ tSession[transports[req[r].hdr]] = req[r].hdr
    /\ tSession[r] = EmptyString

\* C16: the SIGINT handler attempts close on every registered transport, and
\* when the process exits no failed close is left unlogged.
C16_CloseFailuresLogged ==
  [][ (~exited /\ exited') =>
        \A t \in Registered :
          /\ closeState'[t] # "none"
          /\ closeState'[t] # "rejected" ]_vars

\* C19: a step of a request changes the registry entry, and the removal
\* count, of no identifier but its own (the one it carries, or the one its
\* own new transport is given), changes the session of no transport but the
\* one it constructed, and the transport a request is handed to is the one it
\* constructed (no identifier) or the one of the identifier it carries.
C19_SessionsIndependent ==
  [][ \A r \in Reqs :
        (Acts(r) /\ ~exited') =>
          LET own == IF Falsy(req'[r].hdr) THEN tSession'[r] ELSE req'[r].hdr IN
            /\ \A s \in SessionIds \ {own} :
                 /\ transports'[s] = transports[s]
                 /\ removed'[s] = removed[s]
            /\ \A t \in Reqs \ {r} : tSession'[t] = tSession[t]
            /\ req'[r].fwd # NoTransport =>
                 IF Falsy(req'[r].hdr)
                   THEN req'[r].fwd = r
                   ELSE tSession'[req'[r].fwd] = req'[r].hdr ]_vars

\* A DELETE has run to its end for one identifier, whose entry is gone, while
\* the session of another identifier is still registered.
C19_Witness ==
  \E r \in Reqs :
    /\ req[r].pc = "done" /\ req[r].method = "DELETE"
    /\ req[r].hdr \in terminated
    /\ ~Has(req[r].hdr)
    /\ removed[req[r].hdr] = 1
    /\ \E s \in SessionIds \ {req[r].hdr} : Has(s) /\ tSession[transports[s]] = s

C17_HandlerMirrorsExecuteTool ==
  \A r \in Reqs :
    LET c == tcall[r] IN
      /\ c.pc # "none" =>
           /\ c.execN = 1
           /\ c.execName = c.name
           /\ c.execArgs = c.args
      /\ c.pc \in {"none", "executing"} =>
           (c.execOut = NoOutcome /\ c.out = NoOutcome)
      /\ c.pc = "returned" => (c.execOut.kind = "result" /\ c.out = c.execOut)
      /\ c.pc = "threw" => (c.execOut.kind = "error" /\ c.out = c.execOut)

\* One tool call has thrown the second of the errors while another, for the
\* other tool and with other arguments, is pending.
C17_Witness ==
  \E r, q \in Reqs :
    /\ tcall[r].pc = "threw"
    /\ tcall[r].out = Outcome("error", "error-b")
    /\ tcall[q].pc = "executing"
    /\ tcall[q].name # tcall[r].name
    /\ tcall[q].args # tcall[r].args

\* C18: the step in which a tool call fails leaves the registry, the
\* transports' sessions and the set of closed transports as they are, so the
\* session of the call stays registered; and every POST that arrives with a
\* registered identifier, after a failure as before, is handed to the
\* transport registered for that identifier.
C18_ToolFailureIsLocal ==
  [][ \A r \in Reqs :
        /\ (req[r].pc = "tool_exec" /\ tcall'[r].pc = "threw") =>
             /\ transports' = transports
             /\ tSession' = tSession
             /\ tClosed' = tClosed
             /\ removed' = removed
             /\ Has(req[r].hdr)
             /\ transports'[req[r].hdr] = tcall'[r].via
             /\ \A q \in Reqs \ {r} : req'[q].pc = req[q].pc
        /\ (ArrivesNow(r) /\ Has(req'[r].hdr)) =>
             /\ req'[r].pc = "post_handle"
             /\ req'[r].fwd = transports[req'[r].hdr] ]_vars

\* A tool call has failed on a session, and a POST that arrived after the
\* failure has been handed to the transport of that session.  (Three requests
\* have arrived: the initialize, the failed call, and the later POST.  The
\* record of the failed request is already reduced, which only a step of
\* another request does, and the only step the later POST has taken is its
\* arrival.)
C18_Witness ==
  \E r, q \in Reqs :
    /\ r < q
    /\ tcall[r].pc = "threw"
    /\ req[r] = DoneReq
    /\ req[q].pc = "post_handle"
    /\ req[q].fwd = tcall[r].via
    /\ Has(req[q].hdr) /\ transports[req[q].hdr] = tcall[r].via
    /\ \A x \in Reqs \ {q} : req[x].pc \in {"new", "done"}
    /\ Cardinality({ x \in Reqs : req[x].pc # "new" }) = 3

====
